---------------------------- MODULE Spec2Model ----------------------------
(***************************************************************************)
(* Model of the voice assistant of gpt_smart_speaker:                      *)
(*   src/smart_speaker.py  MicrophoneStream (capture queue and generator), *)
(*                         text_message (completion, synthesis, playback   *)
(*                         with the capture input muted),                  *)
(*                         listen_print_loop (transcript events -> turns)  *)
(*   src/gpt.py            ask (history store, request window)             *)
(*                                                                         *)
(* Text is a sequence of one-character strings, so that strip(), len(),    *)
(* the termination regex and the CSV NA-token rule are computed, not       *)
(* assumed.  Time is counted in ticks of 0.75 seconds.                    *)
(***************************************************************************)
EXTENDS Integers, Sequences, FiniteSets

\* ------------------------------------------------------------------ bounds
\* chunks the audio callback delivers in one run
MaxChunks == 3
\* direct calls of ask in one run of SpecAsk
MaxAsks == 2
\* responses the recognizer sends in one session
MaxEvents == 2
\* ticks of the clock in one session
MaxTime == 4
\* chunks the audio callback delivers in one session of SpecMain
MaxSessionChunks == 1

\* ------------------------------------------------------- program constants
\* gpt.py: HISTORY_LENGTH = 8
HISTORY_LENGTH == 8
\* smart_speaker.py: MIN_TEXT_LENGTH = 3
MIN_TEXT_LENGTH == 3
\* smart_speaker.py: PAUSE_TIME = 1.5 (seconds): two ticks of 0.75 s
PAUSE_TIME == 2

\* --------------------------------------------------------------- variables
VARIABLES
    \* MicrophoneStream
    mpc,            \* main()'s position around the `with MicrophoneStream` block
    closed,         \* self.closed
    stream_active,  \* the PyAudio stream is open and started (callbacks may fire)
    _buff,          \* self._buff: the queue, chunks and the sentinel None
    gpc,            \* position of the generator() frame
    chunk,          \* generator local `chunk`
    data,           \* generator local `data`
    yielded,        \* the blocks generator() has yielded so far, in order
    pushed,         \* the chunks _fill_buffer has put so far, in order
    status_error,   \* some callback was invoked with an error in status_flags
    \* gpt.py
    file,           \* HISTORY_FILE on disk
    history,        \* ask's local `history` (the DataFrame), as the call left it
    request,        \* the messages of the completion request the call sent
    asked,          \* calls of ask so far
    answered,       \* completion responses received so far
    \* the recognizer and the clock
    now,            \* time.time(), in ticks
    responses,      \* recognizer responses sent and not yet taken by the loop
    rec,            \* the response stream: "open", "ended" or "error"
    emitted,        \* responses the recognizer has sent so far
    \* listen_print_loop
    lpc,            \* position of listen_print_loop
    transcript,     \* local `transcript` (stripped), while text_message runs
    current_time,   \* local `current_time`, while text_message runs
    last_time,      \* local `last_time`
    last_text,      \* local `last_text`
    last_sent,      \* when the response of the last text_message call was sent
    \* text_message
    tpc,            \* position of text_message
    message,        \* parameter `message`
    reply,          \* local `response`: the completion's reply
    raised,         \* an exception is propagating out of the inner try
    unmute_failed,  \* a call that unmutes (lines 204, 209, 210) raised in this turn
    unmutes,        \* calls of mixer.setrec(1) the running text_message has made
    muted,          \* mixer.setrec(0) has returned in the running text_message
    capture,        \* the Mic control's capture switch
    playing         \* pygame.mixer.music.get_busy()

streamVars == <<mpc, closed, stream_active, _buff, gpc, chunk, data, yielded, pushed, status_error>>

askVars == <<file, history, request, asked, answered>>

recVars == <<now, responses, rec, emitted>>

loopVars == <<lpc, transcript, current_time, last_time, last_text, last_sent>>

turnVars == <<tpc, message, reply, raised, unmute_failed, unmutes, muted, capture, playing>>

dialogVars == <<recVars, loopVars, turnVars>>

vars == <<streamVars, askVars, dialogVars>>

\* ------------------------------------------------------- MicrophoneStream
\* The queue's sentinel (Python None), told from every chunk: chunks are
\* sequences of bytes, and no byte is -1.
None == <<-1>>

\* bytes of a sequence of chunks, joined: b"".join(data)
RECURSIVE join(_)
join(blocks) ==
    IF blocks = <<>> THEN <<>> ELSE Head(blocks) \o join(Tail(blocks))

\* The in_data the audio layer hands to the n-th callback: one or two bytes
\* tagged with n, so that a reordered or repeated chunk shows in the bytes.
in_data_of(n) == { <<n>>, <<n, n>> }

\* __init__: self._buff = queue.Queue(); self.closed = True
StreamInit ==
    /\ mpc = "start"
    /\ closed = TRUE
    /\ stream_active = FALSE
    /\ _buff = <<>>
    /\ gpc = "created"
    /\ chunk = None
    /\ data = <<>>
    /\ yielded = <<>>
    /\ pushed = <<>>
    /\ status_error = FALSE

\* __enter__, lines 80-98: open the input stream; the callback runs from here on.
\* An exception of open() is re-raised: the with-body and __exit__ never run.
enter_open ==
    /\ mpc = "start"
    /\ \E ok \in BOOLEAN :
         IF ok THEN /\ stream_active' = TRUE
                    /\ mpc' = "opened"
               ELSE /\ stream_active' = FALSE
                    /\ mpc' = "open_failed"
    /\ UNCHANGED <<closed, _buff, gpc, chunk, data, yielded, pushed, status_error>>
    /\ UNCHANGED <<askVars, dialogVars>>

\* __enter__, lines 100-101: self.closed = False; the with-body starts.
enter_return ==
    /\ mpc = "opened"
    /\ closed' = FALSE
    /\ mpc' = "with"
    /\ UNCHANGED <<stream_active, _buff, gpc, chunk, data, yielded, pushed, status_error>>
    /\ UNCHANGED <<askVars, dialogVars>>

\* __exit__, lines 115-116: stop_stream(); close(): no callback after this.
exit_stop ==
    /\ mpc = "with"
    /\ stream_active' = FALSE
    /\ mpc' = "stopped"
    /\ UNCHANGED <<closed, _buff, gpc, chunk, data, yielded, pushed, status_error>>
    /\ UNCHANGED <<askVars, dialogVars>>

\* __exit__, line 117: self.closed = True
exit_closed ==
    /\ mpc = "stopped"
    /\ closed' = TRUE
    /\ mpc' = "closed"
    /\ UNCHANGED <<stream_active, _buff, gpc, chunk, data, yielded, pushed, status_error>>
    /\ UNCHANGED <<askVars, dialogVars>>

\* mutant of exit_put: __exit__ forgets the sentinel
exit_put_no_sentinel ==
    /\ mpc = "closed"
    /\ mpc' = "exited"
    /\ UNCHANGED <<closed, stream_active, _buff, gpc, chunk, data, yielded, pushed, status_error>>
    /\ UNCHANGED <<askVars, dialogVars>>

\* __exit__, lines 118-119: self._buff.put(None); terminate()
exit_put ==
    /\ mpc = "closed"
    /\ _buff' = Append(_buff, None)
    /\ mpc' = "exited"
    /\ UNCHANGED <<closed, stream_active, gpc, chunk, data, yielded, pushed, status_error>>
    /\ UNCHANGED <<askVars, dialogVars>>

\* mutant of _fill_buffer: a queue of maxsize 1, whose put blocks while full
_fill_buffer_bounded ==
    /\ stream_active
    /\ Len(pushed) < MaxChunks
    /\ Len(_buff) < 1
    /\ \E in_data \in in_data_of(Len(pushed) + 1), status_flags \in {0, 2} :
         /\ _buff' = Append(_buff, in_data)
         /\ pushed' = Append(pushed, in_data)
         /\ status_error' = (status_error \/ status_flags # 0)
    /\ UNCHANGED <<mpc, closed, stream_active, gpc, chunk, data, yielded>>
    /\ UNCHANGED <<askVars, dialogVars>>

\* status_flags of a callback: 0, or an error bit (paInputOverflow)
StatusFlags == {0, 2}

\* _fill_buffer: self._buff.put(in_data); return None, paContinue.
\* The queue is unbounded, so put never blocks.  status_flags is not read.
_fill_buffer ==
    /\ stream_active
    /\ Len(pushed) < MaxChunks
    /\ \E in_data \in in_data_of(Len(pushed) + 1), status_flags \in StatusFlags :
         /\ _buff' = Append(_buff, in_data)
         /\ pushed' = Append(pushed, in_data)
         /\ status_error' = (status_error \/ status_flags # 0)
    /\ UNCHANGED <<mpc, closed, stream_active, gpc, chunk, data, yielded>>
    /\ UNCHANGED <<askVars, dialogVars>>

\* generator(): the frame exists once main() has called stream.generator()
\* inside the with-body; its code runs when the consumer calls next().
GeneratorExists == mpc \notin {"start", "opened", "open_failed"}

\* line 133, `while not self.closed`: reached by the first next() and by each
\* next() that resumes the frame after the yield of line 149.
generator_while ==
    /\ GeneratorExists
    /\ gpc \in {"created", "yield149"}
    /\ gpc' = IF closed THEN "end133" ELSE "get134"
    /\ UNCHANGED <<mpc, closed, stream_active, _buff, chunk, data, yielded, pushed, status_error>>
    /\ UNCHANGED <<askVars, dialogVars>>

\* mutant of generator_get: no `if chunk is None` at line 135
generator_get_no_sentinel_check ==
    /\ gpc = "get134"
    /\ _buff # <<>>
    /\ chunk' = Head(_buff)
    /\ _buff' = Tail(_buff)
    /\ gpc' = "drain142"
    /\ data' = <<Head(_buff)>>
    /\ UNCHANGED <<mpc, closed, stream_active, yielded, pushed, status_error>>
    /\ UNCHANGED <<askVars, dialogVars>>

\* lines 134-137: chunk = self._buff.get() blocks while the queue is empty;
\* None ends the generator, a chunk starts the block.
generator_get ==
    /\ gpc = "get134"
    /\ _buff # <<>>
    /\ chunk' = Head(_buff)
    /\ _buff' = Tail(_buff)
    /\ IF Head(_buff) = None
         THEN /\ gpc' = "return136"
              /\ data' = data
         ELSE /\ gpc' = "drain142"
              /\ data' = <<Head(_buff)>>
    /\ UNCHANGED <<mpc, closed, stream_active, yielded, pushed, status_error>>
    /\ UNCHANGED <<askVars, dialogVars>>

\* mutant of generator_drain: a drained chunk goes in front of the block
generator_drain_prepend ==
    /\ gpc = "drain142"
    /\ IF _buff = <<>>
         THEN /\ yielded' = Append(yielded, join(data))
              /\ gpc' = "yield149"
              /\ UNCHANGED <<_buff, chunk, data>>
         ELSE /\ chunk' = Head(_buff)
              /\ _buff' = Tail(_buff)
              /\ IF Head(_buff) = None
                   THEN /\ gpc' = "return144"
                        /\ data' = data
                   ELSE /\ gpc' = "drain142"
                        /\ data' = <<Head(_buff)>> \o data
              /\ UNCHANGED yielded
    /\ UNCHANGED <<mpc, closed, stream_active, pushed, status_error>>
    /\ UNCHANGED <<askVars, dialogVars>>

\* lines 140-149: one get(block=False) of the inner loop.  queue.Empty breaks
\* the loop and the block is yielded; None returns (the collected data is not
\* yielded); a chunk is appended.
generator_drain ==
    /\ gpc = "drain142"
    /\ IF _buff = <<>>
         THEN /\ yielded' = Append(yielded, join(data))
              /\ gpc' = "yield149"
              /\ UNCHANGED <<_buff, chunk, data>>
         ELSE /\ chunk' = Head(_buff)
              /\ _buff' = Tail(_buff)
              /\ IF Head(_buff) = None
                   THEN /\ gpc' = "return144"
                        /\ data' = data
                   ELSE /\ gpc' = "drain142"
                        /\ data' = Append(data, Head(_buff))
              /\ UNCHANGED yielded
    /\ UNCHANGED <<mpc, closed, stream_active, pushed, status_error>>
    /\ UNCHANGED <<askVars, dialogVars>>

generator == generator_while \/ generator_get \/ generator_drain

GeneratorEnded == gpc \in {"end133", "return136", "return144"}

\* ----------------------------------------------------------------- text
\* str.isspace() is true of these characters
Whitespace == {" ", "\t", "\n"}

RECURSIVE lstrip(_)
lstrip(s) ==
    IF s # <<>> /\ Head(s) \in Whitespace THEN lstrip(Tail(s)) ELSE s

RECURSIVE rstrip(_)
rstrip(s) ==
    IF s # <<>> /\ s[Len(s)] \in Whitespace
      THEN rstrip(SubSeq(s, 1, Len(s) - 1))
      ELSE s

\* str.strip()
strip(s) == lstrip(rstrip(s))

\* str.isspace(): at least one character, and all of them whitespace
isspace(s) == s # <<>> /\ \A i \in 1..Len(s) : s[i] \in Whitespace

\* ------------------------------------------------------------------ gpt.py
\* pandas' float NaN, the value read_csv gives a cell holding an NA token;
\* it is no str.
NaN == <<"float nan">>

\* Cell texts pd.read_csv (default na_values, keep_default_na) reads as NaN.
NaTokens ==
    { <<>>,
      <<"N", "A">>, <<"N", "/", "A">>, <<"n", "/", "a">>,
      <<"N", "a", "N">>, <<"n", "a", "n">>,
      <<"N", "U", "L", "L">>, <<"n", "u", "l", "l">> }

\* The history file before the first run, and the empty DataFrame of line 66.
MissingFile == [kind |-> "missing", rows |-> <<>>]

\* pd.read_csv(HISTORY_FILE), line 64.  A missing file, or one the OS refuses
\* to read (`fault`), raises OSError; a file of zero bytes or one that is not
\* CSV raises pandas' EmptyDataError / ParserError, which are ValueErrors.
read_csv(f, fault) ==
    IF f.kind = "missing" \/ fault THEN [raised |-> "OSError", rows |-> <<>>]
    ELSE IF f.kind # "csv" THEN [raised |-> "ValueError", rows |-> <<>>]
    ELSE [raised |-> "no",
          rows |-> [i \in 1..Len(f.rows) |->
                      [f.rows[i] EXCEPT
                         !.content = IF @ \in NaTokens THEN NaN ELSE @]]]

\* history.to_csv(HISTORY_FILE, index=False), line 118: the whole frame is
\* written over the file; NaN is written as the empty field (na_rep='').
to_csv(frame) ==
    [kind |-> "csv",
     rows |-> [i \in 1..Len(frame) |->
                 [frame[i] EXCEPT !.content = IF @ = NaN THEN <<>> ELSE @]]]

\* role.txt, read fresh on every call (lines 69-71)
RoleText == <<"r", "o", "l", "e">>

\* mutant of tail: the first n rows, DataFrame.head(n)
tail_is_head(frame, n) ==
    IF Len(frame) <= n THEN frame ELSE SubSeq(frame, 1, n)

\* DataFrame.tail(n)
tail(frame, n) ==
    IF Len(frame) <= n THEN frame ELSE SubSeq(frame, Len(frame) - n + 1, Len(frame))

\* history[history['user_id'] == user_id]
rows_of(frame, user_id) ==
    SelectSeq(frame, LAMBDA row : row.user_id = user_id)

\* [['role', 'content']] ... .to_dict('records')
to_dict(frame) ==
    [i \in 1..Len(frame) |-> [role |-> frame[i].role, content |-> frame[i].content]]

\* lines 86-98: the messages of the completion request
messages(frame, user_id) ==
    << [role |-> "system", content |-> RoleText],
       [role |-> "user", content |-> <<>>] >>
    \o to_dict(tail(rows_of(frame, user_id), HISTORY_LENGTH))

\* lines 76-83 and 108-115: pd.concat([history, one record], ignore_index=True)
concat(frame, user_id, role, content) ==
    Append(frame, [user_id |-> user_id, role |-> role, content |-> content])

NoRequest == <<>>

\* mutant of ask: the user turn is written to the file before the request
ask_persists_user_first(f, user_id, text, env) ==
    LET read     == read_csv(f, env.read_fault)
        loaded   == read.rows
        withUser == concat(loaded, user_id, "user", text)
        msgs     == messages(withUser, user_id)
        withBoth == concat(withUser, user_id, "assistant", env.completion.text)
    IN  IF read.raised = "ValueError"
          THEN [raised |-> TRUE, file |-> f, history |-> <<>>,
                request |-> NoRequest, response |-> <<>>, answered |-> FALSE]
        ELSE IF ~env.role_ok
          THEN [raised |-> TRUE, file |-> f, history |-> loaded,
                request |-> NoRequest, response |-> <<>>, answered |-> FALSE]
        ELSE IF ~env.completion.ok
          THEN [raised |-> TRUE, file |-> to_csv(withUser), history |-> withUser,
                request |-> msgs, response |-> <<>>, answered |-> FALSE]
        ELSE [raised |-> FALSE, file |-> to_csv(withBoth), history |-> withBoth,
              request |-> msgs, response |-> env.completion.text, answered |-> TRUE]

\* ask(user_id, text) as a function of the file and of what the environment
\* does in this call: env.read_fault (the OS refuses the read), env.role_ok
\* (role.txt can be read), env.completion (the backend raises, or its reply).
\* The result: whether the call raised, the file, the frame and the request
\* sent (NoRequest if none was), and the reply.
ask(f, user_id, text, env) ==
    LET read     == read_csv(f, env.read_fault)
        loaded   == read.rows                                \* lines 63-66
        withUser == concat(loaded, user_id, "user", text)    \* lines 76-83
        msgs     == messages(withUser, user_id)              \* lines 86-98
        withBoth == concat(withUser, user_id, "assistant", env.completion.text)
    IN  IF read.raised = "ValueError"
          THEN [raised |-> TRUE, file |-> f, history |-> <<>>,
                request |-> NoRequest, response |-> <<>>, answered |-> FALSE]
        ELSE IF ~env.role_ok                                 \* line 70 raises
          THEN [raised |-> TRUE, file |-> f, history |-> loaded,
                request |-> NoRequest, response |-> <<>>, answered |-> FALSE]
        ELSE IF ~env.completion.ok                          \* line 101 raises
          THEN [raised |-> TRUE, file |-> f, history |-> withUser,
                request |-> msgs, response |-> <<>>, answered |-> FALSE]
        ELSE [raised |-> FALSE, file |-> to_csv(withBoth), history |-> withBoth,
              request |-> msgs, response |-> env.completion.text, answered |-> TRUE]

\* What a call can meet: the read fault only where there is a file to refuse.
\* The replies: a plain text and one that is an NA token.
Replies == { <<"o", "k">>, <<"N", "A">> }
AskEnvs(f, replies) ==
    [read_fault : IF f.kind = "csv" THEN BOOLEAN ELSE {FALSE},
     role_ok    : BOOLEAN,
     completion : [ok : {TRUE}, text : replies]
                    \cup {[ok |-> FALSE, text |-> <<>>]}]

\* The callers' arguments in SpecAsk: text_message's user 111 and the 123 of
\* gpt.py's own __main__; a plain text and one that is an NA token.
UserIds == {111, 123}
AskTexts == { <<"h", "e", "y">>, <<"n", "a", "n">> }

\* A history file left by earlier runs: three turns of user 111 around one of
\* user 123 (an empty content is what an NA token becomes once rewritten).
PriorRows ==
    << [user_id |-> 111, role |-> "user",      content |-> <<"h", "e", "y">>],
       [user_id |-> 111, role |-> "assistant", content |-> <<"o", "k">>],
       [user_id |-> 123, role |-> "user",      content |-> <<"h", "e", "y">>],
       [user_id |-> 123, role |-> "assistant", content |-> <<>>],
       [user_id |-> 111, role |-> "user",      content |-> <<"h", "i", "!">>],
       [user_id |-> 111, role |-> "assistant", content |-> <<"N", "o">>],
       [user_id |-> 111, role |-> "user",      content |-> <<"w", "h", "y">>],
       [user_id |-> 111, role |-> "assistant", content |-> <<"s", "o">>] >>

InitialFiles ==
    { MissingFile,
      [kind |-> "empty", rows |-> <<>>],
      [kind |-> "malformed", rows |-> <<>>],
      [kind |-> "csv", rows |-> <<>>],
      [kind |-> "csv", rows |-> PriorRows] }

AskInit ==
    /\ file \in InitialFiles
    /\ history = <<>>
    /\ request = NoRequest
    /\ asked = 0
    /\ answered = 0

\* A call of ask from outside text_message (gpt.py line 124, or any importer).
ask_call ==
    /\ asked < MaxAsks
    /\ \E user_id \in UserIds, text \in AskTexts, env \in AskEnvs(file, Replies) :
         LET r == ask(file, user_id, text, env) IN
           /\ file' = r.file
           /\ history' = r.history
           /\ request' = r.request
           /\ asked' = asked + 1
           /\ answered' = IF r.answered THEN answered + 1 ELSE answered
    /\ UNCHANGED <<streamVars, dialogVars>>

\* -------------------------------------------------- recognizer and clock
UPPER == << "A", "B", "C", "D", "E", "F", "G", "H", "I", "J", "K", "L", "M",
            "N", "O", "P", "Q", "R", "S", "T", "U", "V", "W", "X", "Y", "Z" >>
LOWER == << "a", "b", "c", "d", "e", "f", "g", "h", "i", "j", "k", "l", "m",
            "n", "o", "p", "q", "r", "s", "t", "u", "v", "w", "x", "y", "z" >>
DIGITS == {"0", "1", "2", "3", "4", "5", "6", "7", "8", "9"}

\* case folding of re.I, on the letters the model's texts use
lower(c) ==
    IF \E k \in 1..26 : UPPER[k] = c
      THEN LOWER[CHOOSE k \in 1..26 : UPPER[k] = c]
      ELSE c

\* \w of the regex
is_word(c) == c \in DIGITS \cup {"_"} \cup {LOWER[k] : k \in 1..26} \cup {UPPER[k] : k \in 1..26}

\* re.search(r"\b(exit|quit)\b", s, re.I), line 255
search_exit_quit(s) ==
    \E k \in 1..(Len(s) - 3) :
      /\ [j \in 1..4 |-> lower(s[k + j - 1])]
           \in { <<"e", "x", "i", "t">>, <<"q", "u", "i", "t">> }
      /\ k = 1 \/ ~is_word(s[k - 1])
      /\ k + 3 = Len(s) \/ ~is_word(s[k + 4])

\* The transcripts the recognizer sends: two characters once stripped; three
\* characters; a termination word.  An interim result carries the last.
Transcripts ==
    { <<" ", "h", "i">>,
      <<"h", "e", "y">>,
      <<"E", "x", "i", "t">> }
InterimTranscripts ==
    { <<"E", "x", "i", "t">> }

result(t, f) == << [alternatives |-> << [transcript |-> t] >>, is_final |-> f] >>

\* response.results of a streaming response
Results ==
    { <<>>, << [alternatives |-> <<>>, is_final |-> FALSE] >> }
    \cup { result(t, TRUE) : t \in Transcripts }
    \cup { result(t, FALSE) : t \in InterimTranscripts }

RecInit ==
    /\ now = 0
    /\ responses = <<>>
    /\ rec = "open"
    /\ emitted = 0

\* The session lasts until listen_print_loop returns: main() then leaves the
\* with-block and the request stream of the recognizer ends.
SessionOver == lpc = "done"

\* The clock advances at any point: a call of the dialog flow (completion,
\* synthesis, playback) or a wait for the next response lasts any time.
tick ==
    /\ ~SessionOver
    /\ now < MaxTime
    /\ now' = now + 1
    /\ UNCHANGED <<responses, rec, emitted>>
    /\ UNCHANGED <<streamVars, askVars, loopVars, turnVars>>

\* The recognizer sends a response, stamped with the time it is sent; the
\* responses iterator holds it until the loop takes it.
recognizer_emit ==
    /\ ~SessionOver
    /\ rec = "open"
    /\ emitted < MaxEvents
    /\ \E r \in Results :
         responses' = Append(responses, [results |-> r, sent |-> now])
    /\ emitted' = emitted + 1
    /\ UNCHANGED <<now, rec>>
    /\ UNCHANGED <<streamVars, askVars, loopVars, turnVars>>

\* The response stream ends, or fails (the iterator raises once the responses
\* it holds are taken).
recognizer_end ==
    /\ ~SessionOver
    /\ rec = "open"
    /\ rec' \in {"ended", "error"}
    /\ UNCHANGED <<now, responses, emitted>>
    /\ UNCHANGED <<streamVars, askVars, loopVars, turnVars>>

\* ------------------------------------------------------------ text_message
\* text_message's user id, line 164
TEXT_MESSAGE_USER == 111

TurnInit ==
    /\ tpc = "idle"
    /\ message = <<>>
    /\ reply = <<>>
    /\ raised = FALSE
    /\ unmute_failed = FALSE
    /\ unmutes = 0
    /\ muted = FALSE
    /\ capture = "enabled"
    /\ playing = FALSE

\* line 164: response = ask(111, message); an exception goes to line 206.
text_message_ask ==
    /\ tpc = "ask164"
    /\ \E env \in AskEnvs(file, {<<"o", "k">>}) :
         LET r == ask(file, TEXT_MESSAGE_USER, message, env) IN
           /\ file' = r.file
           /\ history' = r.history
           /\ request' = r.request
           /\ asked' = asked + 1
           /\ answered' = IF r.answered THEN answered + 1 ELSE answered
           /\ reply' = r.response
           /\ tpc' = IF r.raised THEN "except207" ELSE "synth181"
    /\ UNCHANGED <<message, raised, unmute_failed, unmutes, muted, capture, playing>>
    /\ UNCHANGED <<streamVars, recVars, loopVars>>

\* lines 168-185: tts_client.synthesize_speech(...)
text_message_synthesize ==
    /\ tpc = "synth181"
    /\ \E ok \in BOOLEAN :
         /\ tpc' = IF ok THEN "mixer188" ELSE "except207"
    /\ UNCHANGED <<message, reply, raised, unmute_failed, unmutes, muted, capture, playing>>
    /\ UNCHANGED <<streamVars, askVars, recVars, loopVars>>

\* line 188: mixer = alsaaudio.Mixer(control='Mic', cardindex=1)
text_message_mixer ==
    /\ tpc = "mixer188"
    /\ \E ok \in BOOLEAN :
         /\ tpc' = IF ok THEN "mute191" ELSE "except207"
    /\ UNCHANGED <<message, reply, raised, unmute_failed, unmutes, muted, capture, playing>>
    /\ UNCHANGED <<streamVars, askVars, recVars, loopVars>>

\* line 191: mixer.setrec(0); a setrec that raises may or may not have
\* switched the control.
text_message_mute ==
    /\ tpc = "mute191"
    /\ \E ok \in BOOLEAN :
         /\ capture' \in IF ok THEN {"disabled"} ELSE {"disabled", capture}
         /\ muted' = ok
         /\ raised' = ~ok
         /\ tpc' = IF ok THEN "write194" ELSE "finally204"
    /\ UNCHANGED <<message, reply, unmute_failed, unmutes, playing>>
    /\ UNCHANGED <<streamVars, askVars, recVars, loopVars>>

\* lines 194-195: the audio is written to OUTPUT_FILE
text_message_write ==
    /\ tpc = "write194"
    /\ \E ok \in BOOLEAN :
         /\ raised' = ~ok
         /\ tpc' = IF ok THEN "play197" ELSE "finally204"
    /\ UNCHANGED <<message, reply, unmute_failed, unmutes, muted, capture, playing>>
    /\ UNCHANGED <<streamVars, askVars, recVars, loopVars>>

\* lines 197-198: pygame.mixer.music.load(OUTPUT_FILE); play()
text_message_play ==
    /\ tpc = "play197"
    /\ \E ok \in BOOLEAN :
         /\ playing' = ok
         /\ raised' = ~ok
         /\ tpc' = IF ok THEN "wait200" ELSE "finally204"
    /\ UNCHANGED <<message, reply, unmute_failed, unmutes, muted, capture>>
    /\ UNCHANGED <<streamVars, askVars, recVars, loopVars>>

\* The playback engine reaches the end of the audio.
playback_ends ==
    /\ playing
    /\ playing' = FALSE
    /\ UNCHANGED <<tpc, message, reply, raised, unmute_failed, unmutes, muted, capture>>
    /\ UNCHANGED <<streamVars, askVars, recVars, loopVars>>

\* lines 200-201: while get_busy(): sleep(0.1) -- left once nothing plays
text_message_wait ==
    /\ tpc = "wait200"
    /\ ~playing
    /\ tpc' = "finally204"
    /\ UNCHANGED <<message, reply, raised, unmute_failed, unmutes, muted, capture, playing>>
    /\ UNCHANGED <<streamVars, askVars, recVars, loopVars>>

\* mutant of return_to_loop: no termination check after a turn
return_to_loop_no_check ==
    /\ tpc' = "idle"
    /\ message' = <<>>
    /\ reply' = <<>>
    /\ unmutes' = 0
    /\ muted' = FALSE
    /\ history' = <<>>
    /\ request' = NoRequest
    /\ last_text' = transcript
    /\ last_time' = current_time
    /\ lpc' = "for228"
    /\ transcript' = <<>>
    /\ current_time' = 0
    /\ UNCHANGED last_sent

\* text_message returns to line 247 and the iteration runs to its end:
\* lines 248-249, and the termination check of lines 255-257.  The locals of
\* the frames that are gone, and those the next iteration assigns before it
\* reads them (lines 236, 243), hold nothing any more.
return_to_loop ==
    /\ tpc' = "idle"
    /\ message' = <<>>
    /\ reply' = <<>>
    /\ unmutes' = 0
    /\ muted' = FALSE
    /\ history' = <<>>
    /\ request' = NoRequest
    /\ last_text' = transcript
    /\ last_time' = current_time
    /\ lpc' = IF search_exit_quit(transcript) THEN "done" ELSE "for228"
    /\ transcript' = <<>>
    /\ current_time' = 0
    /\ UNCHANGED last_sent

\* mutant of text_message_finally: no finally block, setrec(1) only in the
\* handler
text_message_finally_no_unmute ==
    /\ tpc = "finally204"
    /\ IF raised
         THEN /\ tpc' = "except207"
              /\ UNCHANGED <<message, reply, unmutes, muted>>
              /\ UNCHANGED loopVars
              /\ UNCHANGED <<history, request>>
         ELSE return_to_loop
    /\ raised' = FALSE
    /\ UNCHANGED <<unmute_failed, capture, playing>>
    /\ UNCHANGED <<file, asked, answered>>
    /\ UNCHANGED <<streamVars, recVars>>

\* lines 203-204, finally: mixer.setrec(1); then the exception that brought
\* control here, or the one setrec(1) raised, goes on to line 206 (the call
\* of line 204 is counted); with no exception text_message returns.
text_message_finally ==
    /\ tpc = "finally204"
    /\ \E ok \in BOOLEAN :
         /\ capture' = IF ok THEN "enabled" ELSE capture
         /\ unmute_failed' = (unmute_failed \/ ~ok)
         /\ IF raised \/ ~ok
              THEN /\ tpc' = "except207"
                   /\ unmutes' = unmutes + 1
                   /\ UNCHANGED <<message, reply, muted>>
                   /\ UNCHANGED loopVars
                   /\ UNCHANGED <<history, request>>
              ELSE return_to_loop
    /\ raised' = FALSE
    /\ UNCHANGED playing
    /\ UNCHANGED <<file, asked, answered>>
    /\ UNCHANGED <<streamVars, recVars>>

\* mutant of text_message_except: the handler re-raises; the exception leaves
\* text_message and ends the loop at line 259
text_message_except_reraise ==
    /\ tpc = "except207"
    /\ \E ok \in BOOLEAN :
         /\ capture' = IF ok THEN "enabled" ELSE capture
         /\ unmute_failed' = (unmute_failed \/ ~ok)
    /\ tpc' = "idle"
    /\ message' = <<>>
    /\ reply' = <<>>
    /\ unmutes' = 0
    /\ muted' = FALSE
    /\ history' = <<>>
    /\ request' = NoRequest
    /\ lpc' = "done"
    /\ transcript' = <<>>
    /\ current_time' = 0
    /\ UNCHANGED <<last_text, last_time, last_sent>>
    /\ UNCHANGED <<raised, playing>>
    /\ UNCHANGED <<file, asked, answered>>
    /\ UNCHANGED <<streamVars, recVars>>

\* lines 206-212, except Exception: a new Mixer and setrec(1), whose own
\* exceptions are swallowed; text_message returns.
text_message_except ==
    /\ tpc = "except207"
    /\ \E ok \in BOOLEAN :
         /\ capture' = IF ok THEN "enabled" ELSE capture
         /\ unmute_failed' = (unmute_failed \/ ~ok)
    /\ return_to_loop
    /\ UNCHANGED <<raised, playing>>
    /\ UNCHANGED <<file, asked, answered>>
    /\ UNCHANGED <<streamVars, recVars>>

\* -------------------------------------------------------- listen_print_loop
LoopInit ==
    /\ lpc = "start"
    /\ transcript = <<>>
    /\ current_time = 0
    /\ last_time = 0
    /\ last_text = <<>>
    /\ last_sent = 0

\* lines 223-224: last_text = ""; last_time = time.time()
listen_start ==
    /\ lpc = "start"
    /\ last_text' = <<>>
    /\ last_time' = now
    /\ lpc' = "for228"
    /\ UNCHANGED <<transcript, current_time, last_sent>>
    /\ UNCHANGED <<streamVars, askVars, recVars, turnVars>>

\* mutant of gate: no pause gate
gate_no_pause(t, time, last) ==
    /\ Len(t) >= MIN_TEXT_LENGTH
    /\ ~isspace(t)

\* lines 244-245: the pause gate and the length gate of a final
gate(t, time, last) ==
    /\ time - last >= PAUSE_TIME
    /\ Len(t) >= MIN_TEXT_LENGTH
    /\ ~isspace(t)

\* lines 228-257, one iteration up to the call of text_message (line 247) or,
\* without a call, to its end.
listen_next ==
    /\ lpc = "for228"
    /\ responses # <<>>
    /\ responses' = Tail(responses)
    /\ LET r == Head(responses).results IN
         IF r = <<>> \/ r[1].alternatives = <<>>
           THEN \* lines 229-234: continue
                /\ lpc' = "for228"
                /\ UNCHANGED <<transcript, current_time, last_sent>>
                /\ UNCHANGED turnVars
           ELSE LET t == strip(r[1].alternatives[1].transcript) IN
                /\ IF r[1].is_final /\ gate(t, now, last_time)
                     THEN \* line 247: text_message(transcript)
                          /\ transcript' = t
                          /\ current_time' = now
                          /\ last_sent' = Head(responses).sent
                          /\ lpc' = "call247"
                          /\ tpc' = "ask164"
                          /\ message' = t
                          /\ unmute_failed' = FALSE
                          /\ UNCHANGED <<reply, raised, unmutes, muted, capture, playing>>
                     ELSE \* lines 255-257
                          /\ lpc' = IF search_exit_quit(t) THEN "done" ELSE "for228"
                          /\ UNCHANGED <<transcript, current_time, last_sent>>
                          /\ UNCHANGED turnVars
    /\ UNCHANGED <<last_time, last_text>>
    /\ UNCHANGED <<now, rec, emitted>>
    /\ UNCHANGED <<streamVars, askVars>>

\* mutant of listen_stop: an error of the response iterator is not handled,
\* the loop returns only when the stream ends
listen_stop_on_end_only ==
    /\ lpc = "for228"
    /\ responses = <<>>
    /\ rec = "ended"
    /\ lpc' = "done"
    /\ UNCHANGED <<transcript, current_time, last_time, last_text, last_sent>>
    /\ UNCHANGED <<streamVars, askVars, recVars, turnVars>>

\* line 228 with nothing left to take: the iterator is exhausted, or raises
\* and line 259 catches it; listen_print_loop returns.
listen_stop ==
    /\ lpc = "for228"
    /\ responses = <<>>
    /\ rec \in {"ended", "error"}
    /\ lpc' = "done"
    /\ UNCHANGED <<transcript, current_time, last_time, last_text, last_sent>>
    /\ UNCHANGED <<streamVars, askVars, recVars, turnVars>>

StreamNext ==
    \/ enter_open
    \/ enter_return
    \/ exit_stop
    \/ exit_closed
    \/ exit_put
    \/ _fill_buffer
    \/ generator_while
    \/ generator_get
    \/ generator_drain

DialogNext ==
    \/ tick
    \/ recognizer_emit
    \/ recognizer_end
    \/ listen_start
    \/ listen_next
    \/ listen_stop
    \/ text_message_ask
    \/ text_message_synthesize
    \/ text_message_mixer
    \/ text_message_mute
    \/ text_message_write
    \/ text_message_play
    \/ playback_ends
    \/ text_message_wait
    \/ text_message_finally
    \/ text_message_except

\* One run of the program: the history file is what earlier runs left.
Init ==
    /\ StreamInit
    /\ AskInit
    /\ RecInit
    /\ LoopInit
    /\ TurnInit

\* the capture stream and its consumer
InitStream == Init /\ file = MissingFile

SpecStream == InitStream /\ [][StreamNext]_vars

\* The consumer (the recognizer's request thread) keeps calling next() and the
\* frame keeps running.
FairStream == SpecStream /\ WF_vars(generator)

\* ask, called directly
SpecAsk == Init /\ [][ask_call]_vars

\* the dialog flow on its first run
InitDialog == Init /\ file = MissingFile

SpecDialog == InitDialog /\ [][DialogNext]_vars

\* main(), lines 321-329: inside the with-block the generator is created, the
\* recognizer is started on it and listen_print_loop is called.
main_listen ==
    /\ mpc = "with"
    /\ listen_start

\* main(), line 329 to the end of the with-block: listen_print_loop has
\* returned and the with statement calls __exit__.
main_leave ==
    /\ lpc = "done"
    /\ exit_stop

\* the audio callback during the session
main_fill_buffer ==
    /\ Len(pushed) < MaxSessionChunks
    /\ _fill_buffer

\* One session from the opening of the capture stream to its close.  No time
\* passes in it: its responses arrive within PAUSE_TIME of the loop's start
\* and none is promoted (the turns are SpecDialog's).
MainNext ==
    \/ enter_open
    \/ enter_return
    \/ main_listen
    \/ recognizer_emit
    \/ recognizer_end
    \/ listen_next
    \/ listen_stop
    \/ main_leave
    \/ exit_closed
    \/ exit_put
    \/ main_fill_buffer
    \/ generator_while
    \/ generator_get
    \/ generator_drain

InitMain == Init /\ file = MissingFile

SpecMain == InitMain /\ [][MainNext]_vars

\* main() runs on: the loop takes what the iterator holds and __exit__ runs
\* to its end; the consumer keeps calling next().
FairMain ==
    /\ SpecMain
    /\ WF_vars(listen_next \/ listen_stop)
    /\ WF_vars(main_leave \/ exit_closed \/ exit_put)
    /\ WF_vars(generator)

\* A dialog turn with the capture stream running: the session is inside the
\* with-block, the loop has taken the final "hey" PAUSE_TIME after it started
\* and calls text_message (line 247); the audio callback and the consumer run
\* beside the turn.
InitTurn ==
    /\ mpc = "with"
    /\ closed = FALSE
    /\ stream_active = TRUE
    /\ _buff = <<>>
    /\ gpc = "created"
    /\ chunk = None
    /\ data = <<>>
    /\ yielded = <<>>
    /\ pushed = <<>>
    /\ status_error = FALSE
    /\ file = MissingFile
    /\ history = <<>>
    /\ request = NoRequest
    /\ asked = 0
    /\ answered = 0
    /\ now = PAUSE_TIME
    /\ responses = <<>>
    /\ rec = "open"
    /\ emitted = 1
    /\ lpc = "call247"
    /\ transcript = <<"h", "e", "y">>
    /\ current_time = PAUSE_TIME
    /\ last_time = 0
    /\ last_text = <<>>
    /\ last_sent = PAUSE_TIME
    /\ tpc = "ask164"
    /\ message = <<"h", "e", "y">>
    /\ reply = <<>>
    /\ raised = FALSE
    /\ unmute_failed = FALSE
    /\ unmutes = 0
    /\ muted = FALSE
    /\ capture = "enabled"
    /\ playing = FALSE

TurnNext ==
    \/ tick
    \/ text_message_ask
    \/ text_message_synthesize
    \/ text_message_mixer
    \/ text_message_mute
    \/ text_message_write
    \/ text_message_play
    \/ playback_ends
    \/ text_message_wait
    \/ text_message_finally
    \/ text_message_except
    \/ _fill_buffer
    \/ generator_while
    \/ generator_get
    \/ generator_drain

SpecTurn == InitTurn /\ [][TurnNext]_vars

\* ------------------------------------------------------------------ claims
IsPrefix(s, t) == Len(s) <= Len(t) /\ SubSeq(t, 1, Len(s)) = s

\* C2: the bytes of the blocks generator() has yielded so far are a prefix of
\* the bytes of the chunks _fill_buffer has pushed, in push order, in every
\* interleaving of the callback, the consumer and __exit__.
C2_YieldedIsPrefix == IsPrefix(join(yielded), join(pushed))

\* C2 witness: three chunks pushed, delivered whole in two blocks (one of them
\* joins two chunks), and the stream closed.
C2_Witness ==
    /\ mpc = "exited"
    /\ Len(pushed) = 3
    /\ Len(yielded) = 2
    /\ join(yielded) = join(pushed)

\* C3 (as claimed): once the stream is closed and the consumer has ended,
\* every pushed chunk has been yielded.
C3_AllDelivered ==
    (mpc = "exited" /\ GeneratorEnded) => join(yielded) = join(pushed)

\* sentinels __exit__ has put: those in the queue and the one the generator
\* took when it returned at line 136 or 144
SentinelsPut ==
    Cardinality({k \in 1..Len(_buff) : _buff[k] = None})
    + (IF gpc \in {"return136", "return144"} THEN 1 ELSE 0)

\* C4: once __exit__ has run the generator ends, wherever it was (not started,
\* blocked in get, draining, suspended at the yield); and __exit__ has put the
\* sentinel exactly once, nothing else ever puts one.
C4_CloseTerminates ==
    /\ (mpc = "exited") ~> GeneratorEnded
    /\ [](SentinelsPut = IF mpc = "exited" THEN 1 ELSE 0)

\* C4 witness: the generator took the sentinel while draining, after it had
\* yielded a block, and ended.
C4_Witness ==
    /\ mpc = "exited"
    /\ gpc = "return144"
    /\ yielded # <<>>

\* the step of listen_next that takes a response from the iterator
Takes == lpc = "for228" /\ responses # <<>> /\ responses' = Tail(responses)

\* the step calls text_message (line 247)
Promotes == tpc = "idle" /\ tpc' = "ask164"

HasTranscript(r) == r.results # <<>> /\ r.results[1].alternatives # <<>>

TranscriptOf(r) == r.results[1].alternatives[1].transcript

\* C1: when text_message has returned the capture switch is enabled, whatever
\* failed in the turn (completion, synthesis, Mixer, setrec(0), the file
\* write, the playback engine), unless a call that unmutes raised itself; so
\* the switch is disabled only inside a call.
C1_CaptureRestored ==
    (tpc = "idle" /\ ~unmute_failed) => capture = "enabled"

\* C1 witness: a turn whose completion succeeded has returned to the loop with
\* the capture switch enabled.
C1_Witness ==
    /\ tpc = "idle"
    /\ lpc = "for228"
    /\ answered = 1
    /\ ~unmute_failed
    /\ capture = "enabled"

\* C5 (as claimed): a response the loop takes is promoted iff it is final, its
\* trimmed transcript has at least MIN_TEXT_LENGTH characters and is not
\* blank, and PAUSE_TIME has passed since the last promoted one -- with none
\* promoted before, the first final that passes the length gate is promoted.
C5_PromotedIff ==
    [][ Takes =>
          ( Promotes <=>
              /\ HasTranscript(Head(responses))
              /\ Head(responses).results[1].is_final
              /\ Len(strip(TranscriptOf(Head(responses)))) >= MIN_TEXT_LENGTH
              /\ ~isspace(TranscriptOf(Head(responses)))
              /\ (asked = 0 \/ now - last_time >= PAUSE_TIME) ) ]_vars

\* C6 (as claimed): of the finals the recognizer sends for one phrase less
\* than PAUSE_TIME apart at most one is promoted, however long the turn of the
\* first lasts.
C6_DuplicatesCollapsed ==
    [][ ( /\ Takes
          /\ Promotes
          /\ asked > 0
          /\ strip(TranscriptOf(Head(responses))) = last_text )
        => Head(responses).sent - last_sent >= PAUSE_TIME ]_vars

\* C7: a response with a transcript that holds the word exit or quit, final or
\* interim, promoted or not, ends the loop when its iteration ends; after that
\* no response is taken and text_message is not called.
C7_TerminationAlways ==
    [][ /\ ( /\ Takes
             /\ HasTranscript(Head(responses))
             /\ search_exit_quit(strip(TranscriptOf(Head(responses)))) )
           => \/ lpc' = "done"
              \/ lpc' = "call247" /\ search_exit_quit(transcript')
        /\ (lpc = "call247" /\ tpc' = "idle" /\ search_exit_quit(transcript))
           => lpc' = "done"
        /\ lpc = "done"
           => /\ lpc' = "done"
              /\ responses' = responses
              /\ tpc' = tpc
              /\ asked' = asked ]_vars

\* C7 witness: the loop has ended on a termination phrase that was not
\* promoted (the stream is still open and no turn has run), with a later
\* response left untaken.
C7_Witness ==
    /\ lpc = "done"
    /\ rec = "open"
    /\ asked = 0
    /\ responses # <<>>

\* the frame the request was built from: the history with the utterance just
\* appended (a call that got its reply has appended the reply after it)
RequestFrame ==
    IF history[Len(history)].role = "assistant"
      THEN SubSeq(history, 1, Len(history) - 1)
      ELSE history

\* C8: the request is the system message with the role text, the empty user
\* message, and then the H turns of the calling user, oldest first, if
\* H <= HISTORY_LENGTH, and the last HISTORY_LENGTH of them otherwise; no turn
\* of another user id is in it.
C8_RequestWindow ==
    request # NoRequest =>
      LET uid   == RequestFrame[Len(RequestFrame)].user_id
          mine  == SelectSeq(RequestFrame, LAMBDA row : row.user_id = uid)
          H     == Len(mine)
          first == IF H <= HISTORY_LENGTH THEN 1 ELSE H - HISTORY_LENGTH + 1
      IN  /\ Len(request) = 2 + (IF H <= HISTORY_LENGTH THEN H ELSE HISTORY_LENGTH)
          /\ request[1] = [role |-> "system", content |-> RoleText]
          /\ request[2] = [role |-> "user", content |-> <<>>]
          /\ \A k \in 3..Len(request) :
               /\ request[k].role = mine[first + k - 3].role
               /\ request[k].content = mine[first + k - 3].content

\* C8 witness: a request of a user with more than HISTORY_LENGTH turns, made
\* while the history also holds turns of another user.
C8_Witness ==
    /\ request # NoRequest
    /\ Len(request) = 2 + HISTORY_LENGTH
    /\ LET uid == RequestFrame[Len(RequestFrame)].user_id IN
         /\ Len(SelectSeq(RequestFrame, LAMBDA row : row.user_id = uid)) > HISTORY_LENGTH
         /\ \E k \in 1..Len(RequestFrame) : RequestFrame[k].user_id # uid

\* turns of a role in the persisted history
Persisted(f, role) == Cardinality({k \in 1..Len(f.rows) : f.rows[k].role = role})

\* C9 (as claimed): every call of ask that sends a completion request leaves
\* one more role=user turn in the persisted history, and one more
\* role=assistant turn if and only if the completion replied -- also when the
\* request fails.
C9_OneTurnPerUtterance ==
    [][ (asked' = asked + 1 /\ request' # NoRequest) =>
          /\ Persisted(file', "user") = Persisted(file, "user") + 1
          /\ Persisted(file', "assistant")
               = Persisted(file, "assistant") + (answered' - answered) ]_vars

\* C10 (as claimed): the persisted history only grows: the rows stored before
\* a step are a prefix of the rows stored after it.
C10_AppendOnly == [][ IsPrefix(file.rows, file'.rows) ]_vars

\* C11 (as claimed): whatever keeps the history file from being read (it is
\* missing, the OS refuses the read, it is empty, it is not CSV), a call of ask
\* that finds the role file and a working backend goes on with an empty
\* history: it sends the request built from the utterance alone and returns
\* the reply.
C11_EmptyHistoryFallback ==
    \A user_id \in UserIds, text \in AskTexts, env \in AskEnvs(file, Replies) :
      ( /\ read_csv(file, env.read_fault).raised # "no"
        /\ env.role_ok
        /\ env.completion.ok )
      => LET r == ask(file, user_id, text, env) IN
           /\ ~r.raised
           /\ r.request = messages(concat(<<>>, user_id, "user", text), user_id)
           /\ r.response = env.completion.text

\* the step in which text_message returns to the loop
Returns == lpc = "call247" /\ tpc # "idle" /\ tpc' = "idle"

\* C12 (as claimed): a playback cycle that ends by success, synthesis
\* failure, file-write failure or playback-engine failure (the completion
\* replied, and setrec(0) did not raise: the turn was muted, or never came to
\* line 204), and in which no unmuting call raised, makes one call of
\* mixer.setrec(1): the one of the step that returns (line 204, or line 210 of
\* the handler) is the only one of the turn.
C12_UnmuteOnce ==
    [][ ( /\ Returns
          /\ reply # <<>>
          /\ muted \/ unmutes = 0
          /\ ~unmute_failed' )
        => unmutes + 1 = 1 ]_vars

\* C13 (as claimed): the synthesis request is issued, and playback is started,
\* only while the capture input is muted (mute, synthesis, play, unmute).
C13_MuteBeforeSynthesis ==
    [][ /\ (tpc = "synth181" /\ tpc' # tpc) => capture = "disabled"
        /\ (tpc = "play197" /\ tpc' # tpc) => capture = "disabled" ]_vars

\* C14: a failure inside a turn stays inside it.  A completion or synthesis
\* call that raises leads to the handler of line 206, the handler leads to the
\* return of text_message, and audio starts nowhere but at line 198; and when
\* text_message returns, after whatever outcome, the loop goes on with the
\* next response (it ends only if the utterance itself held a termination
\* word).
C14_TurnFailureContained ==
    [][ /\ (tpc \in {"ask164", "synth181"} /\ tpc' \notin {tpc, "synth181", "mixer188"})
           => tpc' = "except207" /\ ~playing'
        /\ (tpc = "except207" /\ tpc' # tpc) => Returns /\ ~playing'
        /\ (playing' /\ ~playing) => tpc = "play197"
        /\ Returns
           => lpc' = IF search_exit_quit(transcript) THEN "done" ELSE "for228" ]_vars

\* C14 witness: the completion of the first turn failed, text_message has
\* returned, nothing plays and the loop waits for the next response.
C14_Witness ==
    /\ tpc = "idle"
    /\ lpc = "for228"
    /\ asked = 1
    /\ answered = 0
    /\ ~playing
    /\ capture = "enabled"
    /\ rec = "open"

\* C20: the time a final is promoted at is the time it was taken up, and when
\* text_message returns -- whatever failed in the turn -- that time becomes
\* last_time; a response taken less than PAUSE_TIME after last_time is not
\* promoted.
C20_FailedTurnStartsCooldown ==
    [][ /\ Promotes => current_time' = now
        /\ Returns => last_time' = current_time /\ last_text' = transcript
        /\ (Takes /\ now - last_time < PAUSE_TIME) => ~Promotes ]_vars

\* C20 witness: the completion of the only turn so far failed and the turn
\* has returned; a further final that passes the length gate waits to be
\* taken, less than PAUSE_TIME after the time the failed one was taken up.
C20_Witness ==
    /\ tpc = "idle"
    /\ lpc = "for228"
    /\ asked = 1
    /\ answered = 0
    /\ last_text = <<"h", "e", "y">>
    /\ now - last_time < PAUSE_TIME
    /\ responses # <<>>
    /\ Head(responses).results = result(<<"h", "e", "y">>, TRUE)

\* C16 (as claimed): once the callback has been invoked with an error status
\* the stream counts as ended: no later callback delivers audio, and nothing
\* more is yielded to the consumer.
C16_ErrorStatusEndsStream ==
    [][ status_error => (pushed' = pushed /\ yielded' = yielded) ]_vars

\* C18: the get of line 134 can go on exactly when the queue is not empty, and
\* the drain of line 142 always can; a block that is yielded is the join of
\* the chunks in `data`, of which there is at least one, none of them empty or
\* the sentinel, and they are all the chunks that were queued: the queue is
\* empty, and the blocks yielded so far hold every chunk pushed so far.
C18_BlocksAreDrainedChunks ==
    /\ [](gpc = "get134" => (ENABLED generator_get <=> _buff # <<>>))
    /\ [](gpc = "drain142" => ENABLED generator_drain)
    /\ [][ yielded' # yielded =>
             /\ yielded' = Append(yielded, join(data))
             /\ data # <<>>
             /\ \A k \in 1..Len(data) : data[k] # None /\ data[k] # <<>>
             /\ join(data) # <<>>
             /\ _buff = <<>>
             /\ join(yielded') = join(pushed) ]_vars

\* C18 witness: the generator is suspended at the yield of its first block,
\* which joins three chunks.
C18_Witness ==
    /\ gpc = "yield149"
    /\ Len(yielded) = 1
    /\ Len(data) = 3

\* the chunks waiting in the queue
Queued == SelectSeq(_buff, LAMBDA c : c # None)

\* C17: while a turn runs, whatever its position and however long it lasts,
\* a callback of the running stream can always put its chunk (put never waits
\* for the queue, the consumer or the turn); each put appends the chunk to the
\* queue, and the queue holds the latest chunks in the order they were
\* captured.
C17_CallbackNeverBlocks ==
    /\ []((stream_active /\ Len(pushed) < MaxChunks) => ENABLED _fill_buffer)
    /\ [](Queued = SubSeq(pushed, Len(pushed) - Len(Queued) + 1, Len(pushed)))
    /\ [][ pushed' # pushed =>
             /\ pushed' = Append(pushed, pushed'[Len(pushed')])
             /\ _buff' = Append(_buff, pushed'[Len(pushed')]) ]_vars

\* C17 witness: the turn is waiting for the playback to end, and the three
\* chunks captured since it began wait in the queue, in order, with the
\* consumer not yet started.
C17_Witness ==
    /\ tpc = "wait200"
    /\ playing
    /\ gpc = "created"
    /\ Len(pushed) = 3
    /\ _buff = pushed

\* the roles of the persisted turns of a user, in file order
RolesOf(f, user_id) ==
    [k \in 1..Len(rows_of(f.rows, user_id)) |-> rows_of(f.rows, user_id)[k].role]

\* user, assistant, user, assistant, ...
Paired(roles) ==
    /\ Len(roles) % 2 = 0
    /\ \A k \in 1..Len(roles) :
         roles[k] = IF k % 2 = 1 THEN "user" ELSE "assistant"

\* C19: a call of ask that gets no reply (the history or the role file cannot
\* be read, or the backend raises) leaves the history file as it was; and
\* after any sequence of calls the persisted turns of each user are
\* (user, assistant) pairs.
C19_FailedAskKeepsStore ==
    /\ [][ (asked' = asked + 1 /\ answered' = answered) => file' = file ]_vars
    /\ [](\A user_id \in UserIds : Paired(RolesOf(file, user_id)))

\* C19 witness: a call that succeeded and then one whose completion request
\* failed: the file holds the one pair, the frame of the failed call holds the
\* utterance that was not stored.
C19_Witness ==
    /\ asked = 2
    /\ answered = 1
    /\ file.kind = "csv"
    /\ Len(file.rows) = 2
    /\ Len(history) = 3
    /\ history[3].role = "user"
    /\ request # NoRequest

\* the session is about to end: the loop has ended on a termination phrase,
\* or the response stream has ended or failed under the running loop
SessionEnding == lpc = "done" \/ (lpc = "for228" /\ rec \in {"ended", "error"})

\* C15: however the session ends (termination phrase, end of the response
\* stream, error of the response stream), __exit__ runs and the generator, and
\* with it the request stream built on it, ends; __exit__ starts only when
\* listen_print_loop has returned, and its steps run once each, in order.
C15_ShutdownCascade ==
    /\ SessionEnding ~> (mpc = "exited" /\ GeneratorEnded)
    /\ [][ mpc' # mpc =>
             /\ <<mpc, mpc'>> \in { <<"start", "opened">>, <<"start", "open_failed">>,
                                    <<"opened", "with">>, <<"with", "stopped">>,
                                    <<"stopped", "closed">>, <<"closed", "exited">> }
             /\ mpc = "with" => lpc = "done" ]_vars
    /\ [](mpc = "exited" => SentinelsPut = 1 /\ closed /\ ~stream_active)

\* C15 witness: the response stream failed, the loop returned through its
\* handler, the capture stream is closed and the generator, which had yielded
\* audio, has ended.
C15_Witness ==
    /\ lpc = "done"
    /\ rec = "error"
    /\ mpc = "exited"
    /\ GeneratorEnded
    /\ yielded # <<>>

=============================================================================
